---- MODULE Spec2Model ----
(***************************************************************************)
(* The Maybe container of returns/maybe.py: the two variants _Some and     *)
(* _Nothing, the constructors from_value / Some / maybe / from_iterable,   *)
(* and the operations map, apply, bind, value_or, or_else_call, unwrap     *)
(* and failure.                                                            *)
(*                                                                         *)
(* A Python value is a tagged record, so that None, integers, callables    *)
(* and tuples are distinct values that can be compared.  A container is a  *)
(* record of its class (tag), its _inner_value (inner) and its object      *)
(* identity (id).  A user callable is a function table; every operation    *)
(* returns an outcome: the returned value, the raised exception and the    *)
(* number of user callables it invoked.                                    *)
(***************************************************************************)
EXTENDS Integers, Sequences, FiniteSets, TLC

\* ---------------------------------------------------------------- bounds
MaxVal == 1      \* integer payloads are 0..MaxVal
MaxSteps == 3    \* operations of one client session
MaxLen == 2      \* length of the iterable given to from_iterable

\* ---------------------------------------------------------------- values
None == [k |-> "None"]
PyInt(n) == [k |-> "int", v |-> n]
Callable(g) == [k |-> "callable", v |-> g]
Tuple(s) == [k |-> "tuple", v |-> s]

Vals == {PyInt(n) : n \in 0..MaxVal}
NVals == Vals \cup {None}

\* calling a user callable on an argument
Call(function, a) == function.v[a]

\* user callables: Callable[[_ValueType], Optional[_NewValueType]]
Functions == {Callable(g) : g \in [Vals -> NVals]}
\* callables that also accept None (needed to compose outside the container)
OptFunctions == {Callable(g) : g \in [NVals -> NVals]}
\* thunks: Callable[[], _NewValueType], returning a value or raising
Thunks == {[kind |-> "return", value |-> w] : w \in NVals}
            \cup {[kind |-> "raise", exc |-> e] : e \in {"ValueError", "ZeroDivisionError"}}

\* ------------------------------------------------------------- outcomes
NoExc == [type |-> "none"]
NoRet == [k |-> "noreturn"]
UnwrapFailedError(container) == [type |-> "UnwrapFailedError", halted_container |-> container]
UserError(e) == [type |-> e]

Returned(value, n) == [ret |-> value, exc |-> NoExc, calls |-> n]
Raised(e, n) == [ret |-> NoRet, exc |-> e, calls |-> n]

\* ----------------------------------------------------------- containers
\* _Nothing.__init__: the inner value is None whatever is passed
_Nothing(inner_value, id) == [tag |-> "Nothing", inner |-> None, id |-> id]

\* _Some.__init__: stores the value as given
_Some(inner_value, id) == [tag |-> "Some", inner |-> inner_value, id |-> id]

\* the module-level constant Nothing = _Nothing(), the first object made
Nothing == _Nothing(None, 0)

\* BaseContainer.__eq__: same class and equal inner values
Eq(a, b) == a.tag = b.tag /\ a.inner = b.inner

\* from_value without the None test
from_value_unchecked(inner_value, fresh) == _Some(inner_value, fresh)

\* from_value that tests truthiness where the code tests identity with None
from_value_falsy(inner_value, fresh) ==
    IF inner_value \in {None, PyInt(0)}
    THEN _Nothing(inner_value, fresh)
    ELSE _Some(inner_value, fresh)

\* Maybe.from_value
from_value(inner_value, fresh) ==
    IF inner_value = None
    THEN _Nothing(inner_value, fresh)
    ELSE _Some(inner_value, fresh)

\* Some that tests truthiness where the code tests identity with None
Some_falsy(inner_value, fresh) ==
    IF inner_value \in {None, PyInt(0)}
    THEN _Nothing(inner_value, fresh)
    ELSE _Some(inner_value, fresh)

\* Some
Some(inner_value, fresh) == from_value(inner_value, fresh)

\* the function returned by the maybe decorator, called with one argument
decorator(function, args, fresh) ==
    Returned(from_value(Call(function, args), fresh), 1)

\* -------------------------------------------------- _Nothing operations
\* _Nothing.map that invokes the function before it returns self
Nothing_map_eager(self, function, fresh) == Returned(self, 1)

\* _Nothing.map
Nothing_map(self, function, fresh) == Returned(self, 0)

\* _Nothing.apply
Nothing_apply(self, container, fresh) == Returned(self, 0)

\* _Nothing.bind
Nothing_bind(self, function, fresh) == Returned(self, 0)

\* _Nothing.value_or
Nothing_value_or(self, default_value) == Returned(default_value, 0)

\* _Nothing.or_else_call: function() is evaluated, its exception propagates
Nothing_or_else_call(self, function) ==
    IF function.kind = "raise"
    THEN Raised(UserError(function.exc), 1)
    ELSE Returned(function.value, 1)

\* _Nothing.unwrap that reports the Nothing constant in place of self
Nothing_unwrap_constant(self) == Raised(UnwrapFailedError(Nothing), 0)

\* _Nothing.unwrap
Nothing_unwrap(self) == Raised(UnwrapFailedError(self), 0)

\* _Nothing.failure
Nothing_failure(self) == Returned(self.inner, 0)

\* ----------------------------------------------------- _Some operations
\* _Some.map that wraps the result without from_value
Some_map_raw(self, function, fresh) ==
    Returned(_Some(Call(function, self.inner), fresh), 1)

\* _Some.map
Some_map(self, function, fresh) ==
    Returned(from_value(Call(function, self.inner), fresh), 1)

\* _Some.unwrap
Some_unwrap(self) == Returned(self.inner, 0)

\* _Some.apply that returns self when the other container is not a _Some
Some_apply_self(self, container, fresh) ==
    IF container.tag = "Some"
    THEN Some_map(self, Some_unwrap(container).ret, fresh)
    ELSE Returned(self, 0)

\* _Some.apply: isinstance(container, self.success_type)
Some_apply(self, container, fresh) ==
    IF container.tag = "Some"
    THEN Some_map(self, Some_unwrap(container).ret, fresh)
    ELSE Returned(container, 0)

RECURSIVE bind(_, _, _)

\* the user function lambda a: first(a).bind(second)
Then(first, second) == [k |-> "then", first |-> first, second |-> second]

\* calling a user function that returns a container.  Such a function builds
\* its container with the public constructor, lambda a: Some(function(a)),
\* or chains two such functions, lambda a: first(a).bind(second)
bindable(function, a, fresh) ==
    IF function.k = "then"
    THEN bind(Some(Call(function.first, a), fresh), function.second, fresh + 1).ret
    ELSE Some(Call(function, a), fresh)

\* _Some.bind that keeps self when the function returns Nothing
Some_bind_or_self(self, function, fresh) ==
    LET made == bindable(function, self.inner, fresh)
    IN  IF made.tag = "Nothing" THEN Returned(self, 1) ELSE Returned(made, 1)

\* _Some.bind that returns self
Some_bind_self(self, function, fresh) == Returned(self, 1)

\* _Some.bind: the container made by the function is returned as it is
Some_bind(self, function, fresh) ==
    Returned(bindable(function, self.inner, fresh), 1)

\* _Some.value_or
Some_value_or(self, default_value) == Returned(self.inner, 0)

\* _Some.or_else_call that evaluates the function before returning
Some_or_else_call_eager(self, function) ==
    IF function.kind = "raise"
    THEN Raised(UserError(function.exc), 1)
    ELSE Returned(self.inner, 1)

\* _Some.or_else_call
Some_or_else_call(self, function) == Returned(self.inner, 0)

\* _Some.failure
Some_failure(self) == Raised(UnwrapFailedError(self), 0)

\* ------------------------------------------- dispatch on the class of self
map(self, function, fresh) ==
    IF self.tag = "Some" THEN Some_map(self, function, fresh)
    ELSE Nothing_map(self, function, fresh)

apply(self, container, fresh) ==
    IF self.tag = "Some" THEN Some_apply(self, container, fresh)
    ELSE Nothing_apply(self, container, fresh)

bind(self, function, fresh) ==
    IF self.tag = "Some" THEN Some_bind(self, function, fresh)
    ELSE Nothing_bind(self, function, fresh)

value_or(self, default_value) ==
    IF self.tag = "Some" THEN Some_value_or(self, default_value)
    ELSE Nothing_value_or(self, default_value)

or_else_call(self, function) ==
    IF self.tag = "Some" THEN Some_or_else_call(self, function)
    ELSE Nothing_or_else_call(self, function)

unwrap(self) ==
    IF self.tag = "Some" THEN Some_unwrap(self) ELSE Nothing_unwrap(self)

failure(self) ==
    IF self.tag = "Some" THEN Some_failure(self) ELSE Nothing_failure(self)

\* ------------------------------------------------------- from_iterable
\* iterable_kind: Nothing if any element is Nothing, else Some of the tuple
\* of the payloads in input order
iterable_kind(inner_value, fresh) ==
    IF \E i \in 1..Len(inner_value) : inner_value[i].tag = "Nothing"
    THEN LET first == CHOOSE i \in 1..Len(inner_value) :
                        /\ inner_value[i].tag = "Nothing"
                        /\ \A j \in 1..(i - 1) : inner_value[j].tag = "Some"
         IN  inner_value[first]
    ELSE _Some(Tuple([i \in 1..Len(inner_value) |-> inner_value[i].inner]), fresh)

\* Maybe.from_iterable
from_iterable(inner_value, fresh) == Returned(iterable_kind(inner_value, fresh), 0)

\* ============================================================ the client
VARIABLES
    cur,      \* the container the client holds: the result of its chain so far
    coll,     \* the container last made by from_iterable
    self,     \* the receiver of the last operation
    op,       \* the name of the last operation
    arg,      \* the argument of the last operation
    ret,      \* the plain value the last operation returned (NoRet if none)
    err,      \* the exception the last operation raised (NoExc if none)
    ncalls,   \* the user callables the last operation invoked
    nextId,   \* the identity of the next object made
    steps,    \* the operations performed so far
    chain,    \* the results of the chain of cur since it was constructed
    law,      \* the law under evaluation (LawSpec only)
    pc,       \* the position of the evaluation of the law
    x,        \* the container the law starts from
    f,        \* the first callable of the law
    g,        \* the second callable of the law
    other,    \* the container of a callable given to apply
    lhs,      \* the left-hand side of the law, once evaluated
    rhs       \* the right-hand side of the law, once evaluated

vars == <<cur, coll, self, op, arg, ret, err, ncalls, nextId, steps, chain,
          law, pc, x, f, g, other, lhs, rhs>>
clientVars == <<cur, coll, self, op, arg, ret, err, ncalls, nextId, steps, chain>>
lawVars == <<law, pc, x, f, g, other, lhs, rhs>>

\* the receiver of a classmethod and of a module-level function
MaybeCls == [tag |-> "Maybe"]
Module == [tag |-> "module"]
NoArg == [k |-> "noarg"]
NoLaw == [k |-> "nolaw"]

\* the operations that continue a chain
ChainOps == {"map", "bind", "apply"}

\* one result of a chain: the operation, the class of its result and the
\* user callables it invoked
Link(name, container, n) == [op |-> name, tag |-> container.tag, calls |-> n]

\* the next free identity after an operation returned container c
Bump(n, c) == IF c.id >= n THEN c.id + 1 ELSE n

ClientInit ==
    /\ cur = Nothing
    /\ coll = Nothing
    /\ self = Module
    /\ op = "import"
    /\ arg = NoArg
    /\ ret = NoRet
    /\ err = NoExc
    /\ ncalls = 0
    /\ nextId = 1
    /\ steps = 0
    /\ chain = <<Link("import", Nothing, 0)>>

LawIdle ==
    /\ law = "none"
    /\ pc = "idle"
    /\ x = Nothing
    /\ f = NoLaw
    /\ g = NoLaw
    /\ other = Nothing
    /\ lhs = NoLaw
    /\ rhs = NoLaw

Init == ClientInit /\ LawIdle

\* an operation that returns a container: the client continues with it
Continue(name, receiver, argument, out) ==
    /\ op' = name
    /\ self' = receiver
    /\ arg' = argument
    /\ cur' = out.ret
    /\ ret' = NoRet
    /\ err' = out.exc
    /\ ncalls' = out.calls
    /\ nextId' = Bump(nextId, out.ret)
    /\ steps' = steps + 1
    /\ chain' = IF name \in ChainOps
                THEN Append(chain, Link(name, out.ret, out.calls))
                ELSE <<Link(name, out.ret, out.calls)>>
    /\ UNCHANGED coll
    /\ UNCHANGED lawVars

\* an operation that returns a plain value or raises: the container stays
Extract(name, argument, out) ==
    /\ op' = name
    /\ self' = cur
    /\ arg' = argument
    /\ ret' = out.ret
    /\ err' = out.exc
    /\ ncalls' = out.calls
    /\ steps' = steps + 1
    /\ UNCHANGED <<cur, coll, nextId, chain>>
    /\ UNCHANGED lawVars

FromValue ==
    /\ steps < MaxSteps
    /\ \E v \in NVals :
          Continue("from_value", MaybeCls, v, Returned(from_value(v, nextId), 0))

CallSome ==
    /\ steps < MaxSteps
    /\ \E v \in NVals :
          Continue("Some", Module, v, Returned(Some(v, nextId), 0))

CallDecorated ==
    /\ steps < MaxSteps
    /\ \E function \in Functions, a \in Vals :
          Continue("maybe", Module, [function |-> function, args |-> a],
                   decorator(function, a, nextId))

Map ==
    /\ steps < MaxSteps
    /\ \E function \in Functions :
          Continue("map", cur, function, map(cur, function, nextId))

Bind ==
    /\ steps < MaxSteps
    /\ \E function \in Functions :
          Continue("bind", cur, function, bind(cur, function, nextId))

\* cur.apply(Nothing) and cur.apply(Some(function))
Apply ==
    /\ steps < MaxSteps
    /\ \E container \in {Nothing} \cup {Some(function, nextId) : function \in Functions} :
          Continue("apply", cur, container, apply(cur, container, nextId + 1))

ValueOr ==
    /\ steps < MaxSteps
    /\ \E default_value \in NVals :
          Extract("value_or", default_value, value_or(cur, default_value))

OrElseCall ==
    /\ steps < MaxSteps
    /\ \E function \in Thunks :
          Extract("or_else_call", function, or_else_call(cur, function))

Unwrap ==
    /\ steps < MaxSteps
    /\ Extract("unwrap", NoArg, unwrap(cur))

Failure ==
    /\ steps < MaxSteps
    /\ Extract("failure", NoArg, failure(cur))

\* Maybe.from_iterable of containers made by Some
FromIterable ==
    /\ steps < MaxSteps
    /\ \E n \in 0..MaxLen :
      \E payloads \in [1..n -> NVals] :
        LET inner_value == [i \in 1..n |-> Some(payloads[i], nextId + i - 1)]
            out == from_iterable(inner_value, nextId + n)
        IN  /\ op' = "from_iterable"
            /\ self' = MaybeCls
            /\ arg' = inner_value
            /\ coll' = out.ret
            /\ ret' = NoRet
            /\ err' = out.exc
            /\ ncalls' = out.calls
            /\ nextId' = nextId + n + 1
            /\ steps' = steps + 1
            /\ UNCHANGED <<cur, chain>>
            /\ UNCHANGED lawVars

Next ==
    \/ FromValue
    \/ CallSome
    \/ CallDecorated
    \/ Map
    \/ Bind
    \/ Apply
    \/ ValueOr
    \/ OrElseCall
    \/ Unwrap
    \/ Failure
    \/ FromIterable

Spec == Init /\ [][Next]_vars

\* ================================================= properties of the client
\* a container that is a _Some holding None
PresentNone(c) == c.tag = "Some" /\ c.inner = None

\* C1: whatever public operations were performed, no _Some container holds
\* None: not the container of the chain, not the one made by from_iterable,
\* not a container handed to apply or to from_iterable.
NoPresentWrapsNone ==
    /\ ~PresentNone(cur)
    /\ ~PresentNone(coll)
    /\ (op \in ChainOps \cup {"value_or", "or_else_call", "unwrap", "failure"}
            => ~PresentNone(self))
    /\ (op = "apply" => ~PresentNone(arg))
    /\ (op = "from_iterable" => \A i \in 1..Len(arg) : ~PresentNone(arg[i]))

\* a map whose function returned None on a _Some, followed by one more step
NoPresentWrapsNoneWitness ==
    /\ op = "bind"
    /\ Len(chain) = 3
    /\ chain[2].op = "map"
    /\ chain[2].tag = "Nothing"
    /\ chain[2].calls = 1
    /\ cur.tag = "Nothing"

\* the container that wraps value w after normalization, whatever its identity
Normalized(c, w) ==
    IF w = None
    THEN c.tag = "Nothing" /\ c.inner = None
    ELSE c.tag = "Some" /\ c.inner = w

\* C2: from_value(v) and Some(v) are Some(v) for v other than None and
\* Nothing for None; a decorated function called with a returns Nothing
\* exactly when the function returns None and Some of its result otherwise.
ConstructionNormalizes ==
    /\ (op \in {"from_value", "Some"} => Normalized(cur, arg))
    /\ (op = "maybe" =>
            /\ Normalized(cur, arg.function.v[arg.args])
            /\ ncalls = 1
            /\ err = NoExc)

\* a decorated function returned their falsy value 0, and Some(0) was made
ConstructionNormalizesWitness ==
    /\ op = "maybe"
    /\ arg.function.v[arg.args] = PyInt(0)
    /\ cur.tag = "Some"
    /\ cur.inner = PyInt(0)

\* C3: Some(v).map(f) is Some(f(v)) when f(v) is not None and Nothing when it
\* is; Nothing.map(f) is Nothing and f is not invoked.
MapRenormalizes ==
    op = "map" =>
        IF self.tag = "Some"
        THEN Normalized(cur, arg.v[self.inner]) /\ ncalls = 1
        ELSE cur.tag = "Nothing" /\ ncalls = 0

\* a function returned None on the payload of a _Some
MapRenormalizesWitness ==
    /\ op = "map"
    /\ self.tag = "Some"
    /\ arg.v[self.inner] = None
    /\ cur.tag = "Nothing"

\* C5: once a result of a chain of map, bind and apply is Nothing, or the
\* chain starts from Nothing, every later result of the chain is Nothing
\* and no later step invokes a user function.
Absorption ==
    \A i \in 1..Len(chain) : \A j \in (i + 1)..Len(chain) :
        chain[i].tag = "Nothing" =>
            /\ chain[j].op \in ChainOps
            /\ chain[j].tag = "Nothing"
            /\ chain[j].calls = 0

\* a chain from a _Some reached Nothing in its first step and went on
AbsorptionWitness ==
    /\ Len(chain) = 3
    /\ chain[1].tag = "Some"
    /\ chain[2].tag = "Nothing"
    /\ chain[3].op = "map"
    /\ chain[3].tag = "Nothing"

\* C6: unwrap of a _Some returns its value and failure of a _Nothing returns
\* None; unwrap of a _Nothing and failure of a _Some raise UnwrapFailedError
\* carrying the very container they were called on; nothing else raises,
\* but a thunk given to or_else_call.
UnwrapOnWrongVariant ==
    /\ (op = "unwrap" =>
            IF self.tag = "Some"
            THEN ret = self.inner /\ err = NoExc
            ELSE ret = NoRet /\ err.type = "UnwrapFailedError"
                    /\ err.halted_container = self)
    /\ (op = "failure" =>
            IF self.tag = "Nothing"
            THEN ret = None /\ err = NoExc
            ELSE ret = NoRet /\ err.type = "UnwrapFailedError"
                    /\ err.halted_container = self)
    /\ (err # NoExc =>
            \/ op \in {"unwrap", "failure"} /\ err.type = "UnwrapFailedError"
            \/ op = "or_else_call" /\ arg.kind = "raise" /\ err = UserError(arg.exc))

\* unwrap raised on a _Nothing that is not the Nothing constant
UnwrapOnWrongVariantWitness ==
    /\ op = "unwrap"
    /\ self.tag = "Nothing"
    /\ self.id # Nothing.id
    /\ err.type = "UnwrapFailedError"

\* C7: or_else_call of a _Some returns its value and never invokes the
\* thunk, so a raising thunk raises nothing; or_else_call of a _Nothing
\* invokes the thunk once and returns its result or raises its exception.
OrElseCallLazy ==
    op = "or_else_call" =>
        IF self.tag = "Some"
        THEN ret = self.inner /\ err = NoExc /\ ncalls = 0
        ELSE /\ ncalls = 1
             /\ (arg.kind = "return" => ret = arg.value /\ err = NoExc)
             /\ (arg.kind = "raise" => ret = NoRet /\ err = UserError(arg.exc))

\* a _Some was given a thunk that raises
OrElseCallLazyWitness ==
    /\ op = "or_else_call"
    /\ self.tag = "Some"
    /\ arg.kind = "raise"
    /\ ret = self.inner

\* ================================================================ the laws
\* Each law is evaluated on inputs drawn at the start: first its left-hand
\* side, then its right-hand side.

\* lambda a: Present(a), as a function given to bind
Present == Callable([a \in Vals |-> a])

\* compose(g, f) = lambda a: g(f(a))
compose(second, first) == Callable([a \in Vals |-> Call(second, Call(first, a))])

\* a callable that never returns None
Pure(function) == \A a \in DOMAIN function.v : function.v[a] # None

\* the containers a client can hold: the constant and the ones from_value makes
Inputs == {Nothing} \cup {from_value(v, 1) : v \in NVals}

LawInit ==
    /\ cur = Nothing
    /\ coll = Nothing
    /\ self = Module
    /\ op = "import"
    /\ arg = NoArg
    /\ ret = NoRet
    /\ err = NoExc
    /\ ncalls = 0
    /\ nextId = 3
    /\ steps = 0
    /\ chain = <<Link("import", Nothing, 0)>>
    /\ pc = "start"
    /\ lhs = NoLaw
    /\ rhs = NoLaw
    /\ x \in Inputs
    /\ \/ /\ law = "apply"
          /\ f \in Functions
          /\ g = NoLaw
          /\ other \in {Nothing, Some(f, 2)}
       \/ /\ law = "left_identity"
          /\ x.tag = "Some"
          /\ f \in Functions
          /\ g = NoLaw
          /\ other = Nothing
       \/ /\ law = "right_identity"
          /\ f = Present
          /\ g = NoLaw
          /\ other = Nothing
       \/ /\ law = "associativity"
          /\ f \in Functions
          /\ g \in Functions
          /\ other = Nothing
       \/ /\ law = "composition"
          /\ f \in Functions
          /\ g \in OptFunctions
          /\ other = Nothing

\* one side of a law has been evaluated
Evaluated(to, left, right) ==
    /\ pc' = to
    /\ lhs' = left
    /\ rhs' = right
    /\ nextId' = IF to = "lhs" THEN Bump(nextId + 1, left) ELSE Bump(nextId + 1, right)
    /\ UNCHANGED <<cur, coll, self, op, arg, ret, err, ncalls, steps, chain>>
    /\ UNCHANGED <<law, x, f, g, other>>

\* x.apply(other)
ApplyLhs ==
    /\ law = "apply"
    /\ pc = "start"
    /\ Evaluated("lhs", apply(x, other, nextId).ret, rhs)

\* x.map(f)
ApplyRhs ==
    /\ law = "apply"
    /\ pc = "lhs"
    /\ Evaluated("done", lhs, map(x, f, nextId).ret)

\* Some(v).bind(f)
LeftIdentityLhs ==
    /\ law = "left_identity"
    /\ pc = "start"
    /\ Evaluated("lhs", bind(x, f, nextId).ret, rhs)

\* f(v)
LeftIdentityRhs ==
    /\ law = "left_identity"
    /\ pc = "lhs"
    /\ Evaluated("done", lhs, bindable(f, x.inner, nextId))

\* x.bind(lambda a: Present(a))
RightIdentityLhs ==
    /\ law = "right_identity"
    /\ pc = "start"
    /\ Evaluated("lhs", bind(x, f, nextId).ret, rhs)

\* x
RightIdentityRhs ==
    /\ law = "right_identity"
    /\ pc = "lhs"
    /\ Evaluated("done", lhs, x)

\* x.bind(f).bind(g)
AssociativityLhs ==
    /\ law = "associativity"
    /\ pc = "start"
    /\ Evaluated("lhs",
                 bind(bind(x, f, nextId).ret, g, nextId + 1).ret, rhs)

\* x.bind(lambda a: f(a).bind(g))
AssociativityRhs ==
    /\ law = "associativity"
    /\ pc = "lhs"
    /\ Evaluated("done", lhs, bind(x, Then(f, g), nextId).ret)

\* x.map(f).map(g)
CompositionLhs ==
    /\ law = "composition"
    /\ pc = "start"
    /\ Evaluated("lhs",
                 map(map(x, f, nextId).ret, g, nextId + 1).ret, rhs)

\* x.map(compose(g, f))
CompositionRhs ==
    /\ law = "composition"
    /\ pc = "lhs"
    /\ Evaluated("done", lhs, map(x, compose(g, f), nextId).ret)

LawNext ==
    \/ ApplyLhs
    \/ ApplyRhs
    \/ LeftIdentityLhs
    \/ LeftIdentityRhs
    \/ RightIdentityLhs
    \/ RightIdentityRhs
    \/ AssociativityLhs
    \/ AssociativityRhs
    \/ CompositionLhs
    \/ CompositionRhs

LawSpec == LawInit /\ [][LawNext]_vars

\* C4: Some(v).apply(Some(g)) equals Some(v).map(g); Some(v).apply(Nothing)
\* is Nothing; Nothing.apply(other) is that Nothing whatever other is.
ApplyConsistentWithMap ==
    (law = "apply" /\ pc = "done") =>
        /\ (x.tag = "Some" /\ other.tag = "Some" => Eq(lhs, rhs))
        /\ (x.tag = "Some" /\ other.tag = "Nothing" => Eq(lhs, Nothing))
        /\ (x.tag = "Nothing" => lhs = x)

\* a _Some applied a function that returned a value other than its own
ApplyConsistentWithMapWitness ==
    /\ law = "apply"
    /\ pc = "done"
    /\ x.tag = "Some"
    /\ other.tag = "Some"
    /\ lhs.tag = "Some"
    /\ lhs.inner # x.inner

\* C8: Some(v).bind(f) equals f(v), and x.bind(lambda a: Present(a))
\* equals x for a _Some and for a _Nothing.
BindIdentities ==
    /\ (law = "left_identity" /\ pc = "done" => Eq(lhs, rhs))
    /\ (law = "right_identity" /\ pc = "done" => Eq(lhs, rhs))

\* the function of the left identity returned Nothing for the payload
BindIdentitiesWitness ==
    /\ law = "left_identity"
    /\ pc = "done"
    /\ Call(f, x.inner) = None
    /\ lhs.tag = "Nothing"

\* C9: x.bind(f).bind(g) equals x.bind(lambda a: f(a).bind(g)).
BindAssociative ==
    (law = "associativity" /\ pc = "done") => Eq(lhs, rhs)

\* both functions ran and the second one changed the value of the first
BindAssociativeWitness ==
    /\ law = "associativity"
    /\ pc = "done"
    /\ x.tag = "Some"
    /\ Call(f, x.inner) # None
    /\ lhs.tag = "Some"
    /\ lhs.inner # Call(f, x.inner)

\* C10: for f and g that never return None, x.map(f).map(g) equals
\* x.map(compose(g, f)).
FunctorComposition ==
    (law = "composition" /\ pc = "done" /\ Pure(f) /\ Pure(g)) => Eq(lhs, rhs)

\* f returned the falsy 0 and g mapped it to another value
FunctorCompositionWitness ==
    /\ law = "composition"
    /\ pc = "done"
    /\ Pure(f)
    /\ Pure(g)
    /\ x.tag = "Some"
    /\ Call(f, x.inner) = PyInt(0)
    /\ lhs.tag = "Some"
    /\ lhs.inner # PyInt(0)

====
